---------------------------- MODULE Spec2Model ----------------------------
(***************************************************************************)
(* Model of processGeminiOutput (src/services/geminiService.ts): the       *)
(* response-normalization pipeline that turns the raw model text, the      *)
(* grounding chunks and the grounding supports into a sanitized graph, a   *)
(* deduplicated source list and a summary.                                 *)
(*                                                                         *)
(* The function is synchronous; the model runs it as a sequence of steps,  *)
(* one per loop iteration or statement group, driven by pc.  The inputs    *)
(* are drawn in Init from bounded sets.                                    *)
(*                                                                         *)
(* Encodings                                                               *)
(*   - a URI is a sequence of characters, so that endsWith('/') and        *)
(*     slice(0, -1) are computed, not assumed;                             *)
(*   - the response text is a sequence of tokens: "F3" is a run of three   *)
(*     backticks, "J" the word json, "{" and "}" braces, " " whitespace,   *)
(*     "x" any other prose character, "G" the serialized members           *)
(*     "nodes": [...], "edges": [...] of a graph object (the arrays are    *)
(*     rawNodes and rawEdges) and "B" the members of an object that has    *)
(*     no nodes/edges arrays;                                              *)
(*   - a JavaScript value that may be a string, a number or undefined is   *)
(*     a record [ty, s] where s is what String(value) returns;             *)
(*   - a Map is a sequence of [key, val] entries in insertion order.       *)
(***************************************************************************)
EXTENDS Integers, Sequences, FiniteSets, TLC

VARIABLES
    text,                \* input: the raw response text (token sequence)
    groundingChunks,     \* input: raw chunk list
    groundingSupports,   \* input: raw support list
    searchQueries,       \* input: raw query list
    rawNodes,            \* input: the nodes array written in the payload
    rawEdges,            \* input: the edges array written in the payload
    pc,                  \* position in processGeminiOutput
    idx,                 \* index of the next element of the running loop (1-based)
    sourceMap,           \* Map<string, Source>
    chunkIndexToUriMap,  \* Map<number, string>
    cleanSupports,       \* GroundingSupport[]
    cleanText,           \* payload candidate
    summary,             \* text before the payload, trimmed
    uniqueNodes,         \* Map<string, node>
    cleanedEdges,        \* edges kept so far
    outcome,             \* "pending", "returned" or "threw"
    error,               \* message of the error thrown, "" if none
    result,              \* the record returned (NoResult until then)
    view,                \* what SourcePanel's renderSummary produced
    elements,            \* the pieces of the annotated summary, in order
    clicked,             \* chunk index of the last citation marker clicked
    scrolledTo,          \* position of the source entry that click scrolled to
    query,               \* App state: the text of the search input
    graphData,           \* App state: the graph on display
    displayedSources,    \* App state `sources`: the sources on display
    loading,             \* App state: a search is running
    appError,            \* App state `error`: the message on display, or null
    selectedNode,        \* App state: the node picked in the graph, or null
    calls,               \* number of calls of handleSearch so far
    requests             \* the searches started, in order, each with its outcome

vars == <<text, groundingChunks, groundingSupports, searchQueries, rawNodes,
          rawEdges, pc, idx, sourceMap, chunkIndexToUriMap, cleanSupports,
          cleanText, summary, uniqueNodes, cleanedEdges, outcome, error,
          result, view, elements, clicked, scrolledTo, query, graphData,
          displayedSources, loading, appError, selectedNode, calls, requests>>

inputs == <<text, groundingChunks, groundingSupports, searchQueries,
            rawNodes, rawEdges>>

\* the state of the SourcePanel component
panel == <<view, elements, clicked, scrolledTo>>

app == <<query, graphData, displayedSources, loading, appError, selectedNode,
         calls, requests>>

-----------------------------------------------------------------------------
(* Bounds of the model.                                                    *)

MaxChunks == 3
MaxSupports == 2
MaxAmble == 1
MaxPreamble == 2
MaxNodes == 2
MaxEdges == 2

\* calls of handleSearch in one session of the App
MaxSearches == 3

SeqsUpTo(S, n) == UNION {[1..k -> S] : k \in 0..n}

-----------------------------------------------------------------------------
(* Map (insertion-ordered, as the ECMAScript Map).                         *)

MapHas(m, k) == \E j \in 1..Len(m) : m[j].key = k

MapIndex(m, k) == CHOOSE j \in 1..Len(m) : m[j].key = k

MapGet(m, k) == m[MapIndex(m, k)].val

\* Map.prototype.set: a new key is appended, an existing key keeps its
\* position and has its value replaced.
\* A map whose set() moves an overwritten key to the end of the iteration order.
MapSetMoveToEnd(m, k, v) ==
    Append(SelectSeq(m, LAMBDA e : e.key # k), [key |-> k, val |-> v])

MapSet(m, k, v) ==
    IF MapHas(m, k)
    THEN [m EXCEPT ![MapIndex(m, k)] = [key |-> k, val |-> v]]
    ELSE Append(m, [key |-> k, val |-> v])

MapValues(m) == [j \in 1..Len(m) |-> m[j].val]

MapKeys(m) == [j \in 1..Len(m) |-> m[j].key]

-----------------------------------------------------------------------------
(* 1. Citation extractor.                                                  *)

UnknownSource == "Unknown Source"

\* A raw chunk: null, undefined, or an object whose web field is absent,
\* null or an object with an optional uri and an optional title.
Chunk(kind, web, hasUri, uri, hasTitle, title) ==
    [kind |-> kind, web |-> web, hasUri |-> hasUri, uri |-> uri,
     hasTitle |-> hasTitle, title |-> title]

NullChunk == Chunk("null", "absent", FALSE, <<>>, FALSE, "")
UndefinedChunk == Chunk("undefined", "absent", FALSE, <<>>, FALSE, "")
EmptyChunk == Chunk("object", "absent", FALSE, <<>>, FALSE, "")
NullWebChunk == Chunk("object", "null", FALSE, <<>>, FALSE, "")
WebChunk(uri, title) == Chunk("object", "object", TRUE, uri, TRUE, title)
UntitledChunk(uri) == Chunk("object", "object", TRUE, uri, FALSE, "")
NoUriChunk(title) == Chunk("object", "object", FALSE, <<>>, TRUE, title)
BareWebChunk == Chunk("object", "object", FALSE, <<>>, FALSE, "")

\* chunk && chunk.web
HasWeb(chunk) == chunk.kind = "object" /\ chunk.web = "object"

\* truthiness of chunk.web.uri and chunk.web.title (undefined and "" are falsy)
UriTruthy(chunk) == chunk.hasUri /\ chunk.uri # <<>>
TitleTruthy(chunk) == chunk.hasTitle /\ chunk.title # ""

\* variant: the trailing slash is kept
NormalizeUriKeep(uri) == uri

\* uri.endsWith('/') ? uri.slice(0, -1) : uri
NormalizeUri(uri) ==
    IF Len(uri) > 0 /\ uri[Len(uri)] = "/"
    THEN SubSeq(uri, 1, Len(uri) - 1)
    ELSE uri

\* variant: the uri is not tested
ChunkUsableAnyWeb(chunk) == HasWeb(chunk)

\* the condition under which the loop body reaches the uri handling
ChunkUsable(chunk) == HasWeb(chunk) /\ UriTruthy(chunk)

\* title || "Unknown Source"
TitleOrPlaceholder(chunk) ==
    IF TitleTruthy(chunk) THEN chunk.title ELSE UnknownSource

\* variant: any titled chunk overwrites the stored source
ShouldStoreAnyTitle(sm, key, chunk) == ~MapHas(sm, key) \/ TitleTruthy(chunk)

\* variant: a stored source is never replaced
ShouldStoreNewOnly(sm, key, chunk) == ~MapHas(sm, key)

\* !existing || (existing.title === "Unknown Source" && title)
ShouldStore(sm, key, chunk) ==
    \/ ~MapHas(sm, key)
    \/ (MapGet(sm, key).title = UnknownSource /\ TitleTruthy(chunk))

\* the sourceMap after the loop body ran for one chunk
StoreSource(sm, chunk) ==
    IF ~ChunkUsable(chunk) THEN sm
    ELSE LET key == NormalizeUri(chunk.uri) IN
         IF ShouldStore(sm, key, chunk)
         THEN MapSet(sm, key, [title |-> TitleOrPlaceholder(chunk),
                              uri |-> chunk.uri,
                              citationCount |-> 0])
         ELSE sm

\* the chunkIndexToUriMap after the loop body ran for the chunk at the
\* 0-based position index
StoreChunkIndex(im, chunk, index) ==
    IF ChunkUsable(chunk)
    THEN MapSet(im, index, NormalizeUri(chunk.uri))
    ELSE im

-----------------------------------------------------------------------------
(* 2. Citation support linker.                                             *)

\* the text range of a support: offsets into the summary
Segment(startIndex, endIndex) == [startIndex |-> startIndex, endIndex |-> endIndex]

\* A raw support: null, or an object with a segment and an optional
\* groundingChunkIndices array of 0-based chunk positions.
SegmentSupport(kind, hasIndices, indices, segment) ==
    [kind |-> kind, hasIndices |-> hasIndices, groundingChunkIndices |-> indices,
     segment |-> segment]

Support(kind, hasIndices, indices) ==
    SegmentSupport(kind, hasIndices, indices, Segment(0, 1))

NullSupport == Support("null", FALSE, <<>>)
BareSupport == Support("object", FALSE, <<>>)
IndexedSupport(indices) == Support("object", TRUE, indices)

\* if (uri) { const source = sourceMap.get(uri); if (source) count++ }
CountOne(sm, im, chunkIndex) ==
    IF MapHas(im, chunkIndex) /\ MapGet(im, chunkIndex) # <<>>
       /\ MapHas(sm, MapGet(im, chunkIndex))
    THEN LET key == MapGet(im, chunkIndex)
             src == MapGet(sm, key)
         IN MapSet(sm, key, [src EXCEPT !.citationCount = @ + 1])
    ELSE sm

\* support.groundingChunkIndices.forEach(...)
RECURSIVE CountIndices(_, _, _)
CountIndices(sm, im, indices) ==
    IF indices = <<>> THEN sm
    ELSE CountIndices(CountOne(sm, im, Head(indices)), im, Tail(indices))

-----------------------------------------------------------------------------
(* 3. Payload isolator (on token sequences; positions are 0-based as in    *)
(* the code, -1 meaning "not found").                                      *)

Tokens == {"F3", "J", "{", "}", " ", "x", "G", "B"}

IsSpace(t) == t = " "

\* String.prototype.indexOf / lastIndexOf for a one-character needle
IndexOf(s, t) ==
    IF \E j \in 1..Len(s) : s[j] = t
    THEN (CHOOSE j \in 1..Len(s) : s[j] = t /\ \A k \in 1..(j - 1) : s[k] # t) - 1
    ELSE -1

LastIndexOf(s, t) ==
    IF \E j \in 1..Len(s) : s[j] = t
    THEN (CHOOSE j \in 1..Len(s) : s[j] = t /\ \A k \in (j + 1)..Len(s) : s[k] # t) - 1
    ELSE -1

\* String.prototype.substring(from, to) and substring(from): each argument
\* is clamped to 0..length and the two are swapped when from > to
Clamp(n, len) == IF n < 0 THEN 0 ELSE IF n > len THEN len ELSE n

Substring(s, from, to) ==
    LET a == Clamp(from, Len(s))
        b == Clamp(to, Len(s))
    IN IF a <= b THEN SubSeq(s, a + 1, b) ELSE SubSeq(s, b + 1, a)

SubstringFrom(s, from) == Substring(s, from, Len(s))

\* String.prototype.trim
RECURSIVE TrimStart(_)
TrimStart(s) ==
    IF s # <<>> /\ IsSpace(Head(s)) THEN TrimStart(Tail(s)) ELSE s

RECURSIVE TrimEnd(_)
TrimEnd(s) ==
    IF s # <<>> /\ IsSpace(s[Len(s)]) THEN TrimEnd(SubSeq(s, 1, Len(s) - 1)) ELSE s

Trim(s) == TrimEnd(TrimStart(s))

NoMatch == [found |-> FALSE, index |-> -1, capture |-> <<>>]

\* text.match(/<open>\s*([\s\S]*?)\s*```/) for an opening token sequence
\* open.  The match starts at the leftmost occurrence of open that has a
\* closing fence after it.  The first \s* is greedy and the capture lazy,
\* so the capture ends at the first position from which only whitespace
\* precedes a fence: it is the text between the opening and the next
\* fence without its leading and trailing whitespace.
FenceMatch(s, open) ==
    LET n == Len(open)
        Opens(p) == p + n <= Len(s) /\ SubSeq(s, p + 1, p + n) = open
        Closers(p) == {q \in (p + n)..(Len(s) - 1) : s[q + 1] = "F3"}
        Starts == {p \in 0..(Len(s) - 1) : Opens(p) /\ Closers(p) # {}}
    IN IF Starts = {} THEN NoMatch
       ELSE LET p == CHOOSE a \in Starts : \A b \in Starts : a <= b
                q == CHOOSE a \in Closers(p) : \A b \in Closers(p) : a <= b
            IN [found |-> TRUE, index |-> p,
                capture |-> Trim(Substring(s, p + n, q))]

\* variant: the generic pattern is tried first
JsonBlockMatchGenericFirst(s) ==
    IF FenceMatch(s, <<"F3">>).found
    THEN FenceMatch(s, <<"F3">>)
    ELSE FenceMatch(s, <<"F3", "J">>)

\* text.match(/```json\s*([\s\S]*?)\s*```/) || text.match(/```\s*([\s\S]*?)\s*```/)
JsonBlockMatch(s) ==
    IF FenceMatch(s, <<"F3", "J">>).found
    THEN FenceMatch(s, <<"F3", "J">>)
    ELSE FenceMatch(s, <<"F3">>)

\* variant: the text before the first brace is not trimmed
IsolatePayloadRawSummary(s) ==
    LET m == JsonBlockMatch(s)
        firstBrace == IndexOf(s, "{")
    IN IF m.found
       THEN [summary |-> Trim(Substring(s, 0, m.index)), cleanText |-> m.capture]
       ELSE IF firstBrace > 0
            THEN [summary |-> Substring(s, 0, firstBrace),
                  cleanText |-> SubstringFrom(s, firstBrace)]
            ELSE [summary |-> <<>>, cleanText |-> Trim(s)]

\* lines 117-135: [summary, cleanText]
IsolatePayload(s) ==
    LET m == JsonBlockMatch(s)
        firstBrace == IndexOf(s, "{")
    IN IF m.found
       THEN [summary |-> Trim(Substring(s, 0, m.index)), cleanText |-> m.capture]
       ELSE IF firstBrace > 0
            THEN [summary |-> Trim(Substring(s, 0, firstBrace)),
                  cleanText |-> SubstringFrom(s, firstBrace)]
            ELSE [summary |-> <<>>, cleanText |-> Trim(s)]

-----------------------------------------------------------------------------
(* 4. Graph sanitizer.                                                     *)

\* lines 141-146: narrow the candidate to the span first '{' .. last '}'
Retrim(s) ==
    LET firstBrace == IndexOf(s, "{")
        lastBrace == LastIndexOf(s, "}")
    IN IF firstBrace # -1 /\ lastBrace # -1 /\ lastBrace > firstBrace
       THEN Substring(s, firstBrace, lastBrace + 1)
       ELSE s

\* JSON.parse on a token sequence: whitespace between tokens is
\* insignificant; "{G}" is the graph object, "{B}" and "{}" are objects
\* without nodes/edges arrays; anything else is a SyntaxError.
JsonParse(s) ==
    LET t == SelectSeq(s, LAMBDA c : ~IsSpace(c))
    IN IF t = <<"{", "G", "}">> THEN "graph"
       ELSE IF t = <<"{", "B", "}">> \/ t = <<"{", "}">> THEN "object"
       ELSE "SyntaxError"

\* A JavaScript value read from JSON that is a string, a number or absent
\* (undefined); s is the value String() returns for it.
Str(s) == [ty |-> "string", s |-> s]
Num(s) == [ty |-> "number", s |-> s]
Undefined == [ty |-> "undefined", s |-> "undefined"]

\* String(value)
String(v) == Str(v.s)

\* truthiness: undefined, "" and 0 are falsy
Truthy(v) ==
    /\ v.ty # "undefined"
    /\ ~(v.ty = "string" /\ v.s = "")
    /\ ~(v.ty = "number" /\ v.s = "0")

\* A raw node: null or an object with an optional id and a label (the
\* label stands for the node's content: label, type, description, val).
NullNode == [kind |-> "null", id |-> Undefined, label |-> ""]
Node(id, label) == [kind |-> "object", id |-> id, label |-> label]

\* A raw edge: null or an object with source, target and relation.
NullEdge == [kind |-> "null", source |-> Undefined, target |-> Undefined,
             relation |-> ""]
Edge(source, target, relation) ==
    [kind |-> "object", source |-> source, target |-> target,
     relation |-> relation]

\* variant: every node with an id is appended
StoreNodeNoDedup(um, node) ==
    IF node.kind = "object" /\ Truthy(node.id)
    THEN Append(um, [key |-> String(node.id).s, val |-> node])
    ELSE um

\* lines 168-172: if (node && node.id) uniqueNodes.set(String(node.id), node)
StoreNode(um, node) ==
    IF node.kind = "object" /\ Truthy(node.id)
    THEN MapSet(um, String(node.id).s, node)
    ELSE um

\* line 176: new Set(cleanedNodes.map((n) => n.id))
NodeIds(nodes) == {nodes[j].id : j \in 1..Len(nodes)}

\* variant: only the source is looked up
EdgeKeptSourceOnly(ids, edge) == String(edge.source) \in ids

\* variant: the endpoints are looked up as written, without String()
EdgeKeptUncoerced(ids, edge) == edge.source \in ids /\ edge.target \in ids

\* line 183: nodeIds.has(sourceId) && nodeIds.has(targetId)
EdgeKept(ids, edge) == String(edge.source) \in ids /\ String(edge.target) \in ids

\* lines 184-188: { ...edge, source: sourceId, target: targetId }
CleanEdge(edge) ==
    [edge EXCEPT !.source = String(edge.source), !.target = String(edge.target)]

EmptyGraph == [nodes |-> <<>>, edges |-> <<>>]

\* lines 166-173: the node loop run on a whole array
RECURSIVE DedupNodes(_, _)
DedupNodes(um, nodes) ==
    IF nodes = <<>> THEN um
    ELSE DedupNodes(StoreNode(um, Head(nodes)), Tail(nodes))

\* lines 179-192: the edge loop run on a whole array without null entries
RECURSIVE FilterEdges(_, _)
FilterEdges(ids, edges) ==
    IF edges = <<>> THEN <<>>
    ELSE IF EdgeKept(ids, Head(edges))
         THEN <<CleanEdge(Head(edges))>> \o FilterEdges(ids, Tail(edges))
         ELSE FilterEdges(ids, Tail(edges))

\* lines 164-197: the graphData returned for the arrays of a parsed payload
\* (threw is set when reading a null edge raises a TypeError)
SanitizeGraph(nodes, edges) ==
    LET cleaned == MapValues(DedupNodes(<<>>, nodes)) IN
    IF \E j \in 1..Len(edges) : edges[j].kind = "null"
    THEN [threw |-> TRUE, nodes |-> <<>>, edges |-> <<>>]
    ELSE [threw |-> FALSE, nodes |-> cleaned,
          edges |-> FilterEdges(NodeIds(cleaned), edges)]

-----------------------------------------------------------------------------
(* 5. SourcePanel: the annotated summary and the source list.  The         *)
(* component receives the summary, the supports and the sources of the     *)
(* result as props.                                                        *)

\* the characters of a token sequence, which summary.length and the
\* segment offsets count ("bt" is one backtick; "G" and "B" never occur in
\* a summary: they follow a brace or a fence)
RECURSIVE Chars(_)
Chars(s) ==
    IF s = <<>> THEN <<>>
    ELSE (IF Head(s) = "F3" THEN <<"bt", "bt", "bt">>
          ELSE IF Head(s) = "J" THEN <<"j", "s", "o", "n">>
          ELSE <<Head(s)>>) \o Chars(Tail(s))

\* [...groundingSupports].sort((a, b) => a.segment.startIndex - b.segment.startIndex)
\* (Array.prototype.sort is stable)
RECURSIVE InsertByStart(_, _)
InsertByStart(sorted, s) ==
    IF sorted = <<>> THEN <<s>>
    ELSE IF Head(sorted).segment.startIndex <= s.segment.startIndex
         THEN <<Head(sorted)>> \o InsertByStart(Tail(sorted), s)
         ELSE <<s>> \o sorted

RECURSIVE SortInto(_, _)
SortInto(sorted, rest) ==
    IF rest = <<>> THEN sorted
    ELSE SortInto(InsertByStart(sorted, Head(rest)), Tail(rest))

SortedSupports(supports) == SortInto(<<>>, supports)

\* sortedSupports.filter(s => s.segment.endIndex <= summary.length)
ValidSupports(sum, supports) ==
    SelectSeq(SortedSupports(supports), LAMBDA s : s.segment.endIndex <= Len(sum))

\* a span of plain text, and a span of supported text followed by one
\* citation marker per chunk index
TextPiece(t) == [kind |-> "text", text |-> t, citations |-> <<>>]
SegmentPiece(t, indices) == [kind |-> "seg", text |-> t, citations |-> indices]

\* validSupports.forEach(...) followed by the remaining text
RECURSIVE RenderPieces(_, _, _)
RenderPieces(sum, supports, lastIndex) ==
    IF supports = <<>>
    THEN IF lastIndex < Len(sum) THEN <<TextPiece(SubstringFrom(sum, lastIndex))>>
                                 ELSE <<>>
    ELSE LET seg == Head(supports).segment IN
         (IF seg.startIndex > lastIndex
          THEN <<TextPiece(Substring(sum, lastIndex, seg.startIndex))>>
          ELSE <<>>)
         \o <<SegmentPiece(Substring(sum, seg.startIndex, seg.endIndex),
                           Head(supports).groundingChunkIndices)>>
         \o RenderPieces(sum, Tail(supports), seg.endIndex)

PlainSummary(sum) == [view |-> "plain", elements |-> <<TextPiece(sum)>>]

\* renderSummary: null for an empty summary, the plain paragraph when no
\* support is valid, a TypeError when a valid support has no
\* groundingChunkIndices to map over, the annotated paragraph otherwise
RenderSummary(sum, supports) ==
    IF sum = <<>> THEN [view |-> "null", elements |-> <<>>]
    ELSE IF supports = <<>> THEN PlainSummary(sum)
    ELSE LET valid == ValidSupports(sum, supports) IN
         IF valid = <<>> THEN PlainSummary(sum)
         ELSE IF \E j \in 1..Len(valid) : ~valid[j].hasIndices
              THEN [view |-> "threw", elements |-> <<>>]
              ELSE [view |-> "annotated", elements |-> RenderPieces(sum, valid, 0)]

\* href={`#source-${chunkIndex}`} and scrollToSource(e, chunkIndex): the
\* number in the element id a marker points to
MarkerTarget(chunkIndex) == chunkIndex

\* id={`source-${idx}`}: the number in the id of the entry at a (1-based)
\* position of the source list
SourceEntryId(position) == position - 1

\* document.getElementById(`source-${index}`): the position of the entry
\* found, 0 when there is none
EntryById(srcs, id) ==
    IF \E j \in 1..Len(srcs) : SourceEntryId(j) = id
    THEN CHOOSE j \in 1..Len(srcs) : SourceEntryId(j) = id
    ELSE 0

\* the chunk indices that have a citation marker in the rendered summary
Markers(els) ==
    UNION {{els[j].citations[q] : q \in 1..Len(els[j].citations)} :
           j \in 1..Len(els)}

-----------------------------------------------------------------------------
(* Input domains.                                                          *)

UriA == <<"a">>
UriASlash == <<"a", "/">>
UriB == <<"b">>
UriSlash == <<"/">>

ChunkDomain ==
    {NullChunk, UndefinedChunk, EmptyChunk, NullWebChunk, BareWebChunk,
     NoUriChunk("T1"), WebChunk(<<>>, "T1"),
     UntitledChunk(UriA), UntitledChunk(UriASlash),
     WebChunk(UriA, "T1"), WebChunk(UriA, "T2"), WebChunk(UriASlash, "T2"),
     WebChunk(UriA, ""), WebChunk(UriA, UnknownSource),
     WebChunk(UriB, "T1"), WebChunk(UriSlash, "T1")}

\* chunk lists used while the supports vary
ChunkSamples ==
    {<<>>,
     <<WebChunk(UriA, "T1"), NullChunk, WebChunk(UriASlash, "T2")>>,
     <<UntitledChunk(UriB), WebChunk(UriA, "T1"), WebChunk(UriB, "T2")>>,
     <<WebChunk(UriSlash, "T1"), WebChunk(UriA, "T1")>>}

IndexLists == {<<>>, <<0>>, <<1>>, <<2>>, <<0, 0>>, <<0, 2>>, <<2, 1>>, <<5>>}

SupportDomain ==
    {NullSupport, BareSupport} \cup {IndexedSupport(ix) : ix \in IndexLists}

\* the text is a payload with a preamble and a postamble around it
AmbleTokens == {"F3", "J", "{", "}", " ", "x"}

Cores ==
    {<<"{", "G", "}">>,
     <<"{", "B", "}">>,
     <<"{", "G">>,
     <<"x">>,
     <<"F3", "J", " ", "{", "G", "}", " ", "F3">>,
     <<"F3", "J", "{", "B", "}", "F3">>,
     <<"F3", " ", "{", "G", "}", "F3">>,
     <<"F3", "J", "{", "G", "F3">>}

Texts ==
    {pre \o core \o post :
        pre \in SeqsUpTo(AmbleTokens, MaxAmble),
        core \in Cores,
        post \in SeqsUpTo(AmbleTokens, MaxAmble)}

NodeDomain ==
    {NullNode, Node(Undefined, "A"), Node(Str(""), "A"), Node(Num("0"), "A"),
     Node(Str("1"), "A"), Node(Str("1"), "B"), Node(Num("1"), "C"),
     Node(Str("2"), "A")}

EdgeDomain ==
    {NullEdge,
     Edge(Str("1"), Str("1"), "self"),
     Edge(Str("1"), Str("2"), "r"),
     Edge(Num("1"), Str("2"), "r"),
     Edge(Str("2"), Str("9"), "broken"),
     Edge(Undefined, Str("1"), "r")}

\* a json-tagged fence around the graph object, each fence on its own line,
\* between a preamble and a postamble
FencedGraph == <<"F3", "J", " ", "{", "G", "}", " ", "F3">>

FencedTexts ==
    {pre \o <<" ">> \o FencedGraph \o <<" ">> \o post :
        pre \in SeqsUpTo(AmbleTokens, MaxPreamble),
        post \in SeqsUpTo(AmbleTokens, MaxAmble)}

PlainGraphText == <<"{", "G", "}">>

\* a two-character summary before the graph object, and supports whose
\* segments lie inside it, overlap, or run past its end
SummarizedGraphText == <<"x", "x", " ", "{", "G", "}">>

RenderSegments == {Segment(0, 1), Segment(1, 2), Segment(0, 2), Segment(1, 3)}

RenderIndexLists == {<<0>>, <<2>>, <<0, 1>>}

RenderSupportDomain ==
    {SegmentSupport("object", TRUE, ix, seg) :
        ix \in RenderIndexLists, seg \in RenderSegments}
    \cup {SegmentSupport("object", FALSE, <<>>, Segment(0, 1))}

OneNode == <<Node(Str("1"), "A")>>
OneEdge == <<Edge(Str("1"), Str("1"), "self")>>
OneChunk == <<WebChunk(UriA, "T1")>>
OneSupport == <<IndexedSupport(<<0>>)>>

-----------------------------------------------------------------------------
(* The state machine.                                                      *)

NoResult ==
    [graphData |-> EmptyGraph, sources |-> <<>>, searchQueries |-> <<>>,
     summary |-> <<>>, groundingSupports |-> <<>>]

\* the loop or statement that runs next, from the chunk loop on
AfterChunks(i) ==
    IF i <= Len(groundingChunks) THEN "chunks"
    ELSE IF Len(groundingSupports) > 0 THEN "supports" ELSE "isolate"

AfterSupports(i) ==
    IF i <= Len(groundingSupports) THEN "supports" ELSE "isolate"

AfterNodes(i) ==
    IF i <= Len(rawNodes) THEN "nodes"
    ELSE IF Len(rawEdges) > 0 THEN "edges" ELSE "return"

AfterEdges(i) ==
    IF i <= Len(rawEdges) THEN "edges" ELSE "return"

\* App.tsx lines 38-45: the values the App state has with an empty
\* localStorage (error and selectedNode are null)
NoError == [set |-> FALSE, message |-> ""]
NoNode == NullNode

AppFresh ==
    /\ query = <<>>
    /\ graphData = EmptyGraph
    /\ displayedSources = <<>>
    /\ loading = FALSE
    /\ appError = NoError
    /\ selectedNode = NoNode
    /\ calls = 0
    /\ requests = <<>>

\* the inputs: each family varies one input over its whole domain
InitChunks ==
    /\ groundingChunks \in SeqsUpTo(ChunkDomain, MaxChunks)
    /\ groundingSupports = <<>>
    /\ text = PlainGraphText
    /\ rawNodes = <<>>
    /\ rawEdges = <<>>
    /\ searchQueries = <<>>

InitSupports ==
    /\ groundingChunks \in ChunkSamples
    /\ groundingSupports \in SeqsUpTo(SupportDomain, MaxSupports)
    /\ text \in {PlainGraphText, <<"x">>}
    /\ rawNodes = OneNode
    /\ rawEdges = <<>>
    /\ searchQueries = <<"q">>

InitText ==
    /\ text \in Texts
    /\ \/ groundingChunks = <<>> /\ groundingSupports = <<>>
       \/ groundingChunks = OneChunk /\ groundingSupports = OneSupport
    /\ rawNodes = OneNode
    /\ rawEdges = OneEdge
    /\ searchQueries = <<"q">>

InitGraph ==
    /\ rawNodes \in SeqsUpTo(NodeDomain, MaxNodes)
    /\ rawEdges \in SeqsUpTo(EdgeDomain, MaxEdges)
    /\ text = PlainGraphText
    /\ groundingChunks = <<>>
    /\ groundingSupports = <<>>
    /\ searchQueries = <<"q">>

InitFenced ==
    /\ text \in FencedTexts
    /\ groundingChunks = <<>>
    /\ groundingSupports = <<>>
    /\ rawNodes = OneNode
    /\ rawEdges = <<Edge(Str("1"), Str("1"), "self"), Edge(Str("2"), Str("9"), "broken")>>
    /\ searchQueries = <<"q">>

InitRender ==
    /\ text = SummarizedGraphText
    /\ groundingChunks \in ChunkSamples
    /\ groundingSupports \in SeqsUpTo(RenderSupportDomain, MaxSupports)
    /\ rawNodes = OneNode
    /\ rawEdges = <<>>
    /\ searchQueries = <<"q">>

Init ==
    /\ \/ InitChunks \/ InitSupports \/ InitText \/ InitGraph \/ InitFenced
       \/ InitRender
    /\ pc = AfterChunks(1)
    /\ idx = 1
    /\ sourceMap = <<>>
    /\ chunkIndexToUriMap = <<>>
    /\ cleanSupports = <<>>
    /\ cleanText = text
    /\ summary = <<>>
    /\ uniqueNodes = <<>>
    /\ cleanedEdges = <<>>
    /\ outcome = "pending"
    /\ error = ""
    /\ result = NoResult
    /\ view = "none"
    /\ elements = <<>>
    /\ clicked = -1
    /\ scrolledTo = 0
    /\ AppFresh

\* line 113
sources == MapValues(sourceMap)

\* line 173
cleanedNodes == MapValues(uniqueNodes)

\* variant: the fallback record drops the sources
FallbackResultNoSources(sum) ==
    [graphData |-> EmptyGraph, sources |-> <<>>,
     searchQueries |-> searchQueries, summary |-> sum,
     groundingSupports |-> cleanSupports]

\* lines 153 and 159: the record of the fallback paths
FallbackResult(sum) ==
    [graphData |-> EmptyGraph, sources |-> sources,
     searchQueries |-> searchQueries, summary |-> sum,
     groundingSupports |-> cleanSupports]

Returns(r) ==
    /\ result' = r
    /\ outcome' = "returned"
    /\ error' = ""
    /\ pc' = "done"
    /\ UNCHANGED <<panel, app>>

Throws(msg) ==
    /\ result' = NoResult
    /\ outcome' = "threw"
    /\ error' = msg
    /\ pc' = "done"
    /\ UNCHANGED <<panel, app>>

Running(nextPc) ==
    /\ pc' = nextPc
    /\ UNCHANGED <<outcome, error, result, panel, app>>

\* lines 64-89: one iteration of groundingChunks.forEach
ExtractChunk ==
    /\ pc = "chunks"
    /\ sourceMap' = StoreSource(sourceMap, groundingChunks[idx])
    /\ chunkIndexToUriMap' =
           StoreChunkIndex(chunkIndexToUriMap, groundingChunks[idx], idx - 1)
    /\ idx' = IF AfterChunks(idx + 1) = "chunks" THEN idx + 1 ELSE 1
    /\ Running(AfterChunks(idx + 1))
    /\ UNCHANGED <<inputs, cleanSupports, cleanText, summary, uniqueNodes,
                   cleanedEdges>>

\* variant: a support is passed on only when it has chunk indices
LinkSupportFiltering ==
    /\ pc = "supports"
    /\ groundingSupports[idx].kind = "object"
    /\ cleanSupports' =
           IF groundingSupports[idx].hasIndices
           THEN Append(cleanSupports, groundingSupports[idx])
           ELSE cleanSupports
    /\ sourceMap' =
           IF groundingSupports[idx].hasIndices
           THEN CountIndices(sourceMap, chunkIndexToUriMap,
                             groundingSupports[idx].groundingChunkIndices)
           ELSE sourceMap
    /\ idx' = IF AfterSupports(idx + 1) = "supports" THEN idx + 1 ELSE 1
    /\ Running(AfterSupports(idx + 1))
    /\ UNCHANGED <<inputs, chunkIndexToUriMap, cleanText, summary,
                   uniqueNodes, cleanedEdges>>

\* lines 97-110: one iteration of groundingSupports.forEach
LinkSupport ==
    /\ pc = "supports"
    /\ groundingSupports[idx].kind = "object"
    /\ cleanSupports' = Append(cleanSupports, groundingSupports[idx])
    /\ sourceMap' =
           IF groundingSupports[idx].hasIndices
           THEN CountIndices(sourceMap, chunkIndexToUriMap,
                             groundingSupports[idx].groundingChunkIndices)
           ELSE sourceMap
    /\ idx' = IF AfterSupports(idx + 1) = "supports" THEN idx + 1 ELSE 1
    /\ Running(AfterSupports(idx + 1))
    /\ UNCHANGED <<inputs, chunkIndexToUriMap, cleanText, summary,
                   uniqueNodes, cleanedEdges>>

\* lines 98-99: a null support is pushed, then reading its
\* groundingChunkIndices raises a TypeError
LinkSupportThrows ==
    /\ pc = "supports"
    /\ groundingSupports[idx].kind = "null"
    /\ cleanSupports' = Append(cleanSupports, groundingSupports[idx])
    /\ Throws("TypeError")
    /\ UNCHANGED <<inputs, idx, sourceMap, chunkIndexToUriMap, cleanText,
                   summary, uniqueNodes, cleanedEdges>>

\* lines 117-135
Isolate ==
    /\ pc = "isolate"
    /\ summary' = IsolatePayload(text).summary
    /\ cleanText' = IsolatePayload(text).cleanText
    /\ Running("parse")
    /\ UNCHANGED <<inputs, idx, sourceMap, chunkIndexToUriMap, cleanSupports,
                   uniqueNodes, cleanedEdges>>

\* lines 139-154, the parse succeeds and the value has both arrays
ParseGraph ==
    /\ pc = "parse"
    /\ JsonParse(Retrim(cleanText)) = "graph"
    /\ cleanText' = Retrim(cleanText)
    /\ idx' = 1
    /\ Running(AfterNodes(1))
    /\ UNCHANGED <<inputs, sourceMap, chunkIndexToUriMap, cleanSupports,
                   summary, uniqueNodes, cleanedEdges>>

\* variant: an invalid shape without sources is thrown, as a parse failure is
ParseInvalidShapeFatal ==
    /\ pc = "parse"
    /\ JsonParse(Retrim(cleanText)) = "object"
    /\ cleanText' = Retrim(cleanText)
    /\ IF Len(sources) > 0
       THEN Returns(FallbackResult(summary))
       ELSE Throws("Invalid graph data structure")
    /\ UNCHANGED <<inputs, idx, sourceMap, chunkIndexToUriMap, cleanSupports,
                   summary, uniqueNodes, cleanedEdges>>

\* lines 151-154, the parse succeeds and an array is missing
ParseInvalidShape ==
    /\ pc = "parse"
    /\ JsonParse(Retrim(cleanText)) = "object"
    /\ cleanText' = Retrim(cleanText)
    /\ Returns(FallbackResult(summary))
    /\ UNCHANGED <<inputs, idx, sourceMap, chunkIndexToUriMap, cleanSupports,
                   summary, uniqueNodes, cleanedEdges>>

\* lines 156-160, JSON.parse throws and a source exists
ParseFailsWithSources ==
    /\ pc = "parse"
    /\ JsonParse(Retrim(cleanText)) = "SyntaxError"
    /\ Len(sources) > 0
    /\ cleanText' = Retrim(cleanText)
    /\ Returns(FallbackResult(summary))
    /\ UNCHANGED <<inputs, idx, sourceMap, chunkIndexToUriMap, cleanSupports,
                   summary, uniqueNodes, cleanedEdges>>

ParseErrorMessage == "Failed to parse knowledge graph data from AI response."

\* variant: the fallback record is returned although no source exists
ParseFailsFatalReturns ==
    /\ pc = "parse"
    /\ JsonParse(Retrim(cleanText)) = "SyntaxError"
    /\ ~(Len(sources) > 0)
    /\ cleanText' = Retrim(cleanText)
    /\ Returns(FallbackResult(summary))
    /\ UNCHANGED <<inputs, idx, sourceMap, chunkIndexToUriMap, cleanSupports,
                   summary, uniqueNodes, cleanedEdges>>

\* lines 156-161, JSON.parse throws and no source exists
ParseFailsFatal ==
    /\ pc = "parse"
    /\ JsonParse(Retrim(cleanText)) = "SyntaxError"
    /\ ~(Len(sources) > 0)
    /\ cleanText' = Retrim(cleanText)
    /\ Throws(ParseErrorMessage)
    /\ UNCHANGED <<inputs, idx, sourceMap, chunkIndexToUriMap, cleanSupports,
                   summary, uniqueNodes, cleanedEdges>>

\* lines 168-172: one iteration of graphData.nodes.forEach
DedupNode ==
    /\ pc = "nodes"
    /\ uniqueNodes' = StoreNode(uniqueNodes, rawNodes[idx])
    /\ idx' = IF AfterNodes(idx + 1) = "nodes" THEN idx + 1 ELSE 1
    /\ Running(AfterNodes(idx + 1))
    /\ UNCHANGED <<inputs, sourceMap, chunkIndexToUriMap, cleanSupports,
                   cleanText, summary, cleanedEdges>>

\* lines 179-192: one iteration of the loop over graphData.edges
FilterEdge ==
    /\ pc = "edges"
    /\ rawEdges[idx].kind = "object"
    /\ cleanedEdges' =
           IF EdgeKept(NodeIds(cleanedNodes), rawEdges[idx])
           THEN Append(cleanedEdges, CleanEdge(rawEdges[idx]))
           ELSE cleanedEdges
    /\ idx' = IF AfterEdges(idx + 1) = "edges" THEN idx + 1 ELSE 1
    /\ Running(AfterEdges(idx + 1))
    /\ UNCHANGED <<inputs, sourceMap, chunkIndexToUriMap, cleanSupports,
                   cleanText, summary, uniqueNodes>>

\* line 180: reading edge.source of a null edge raises a TypeError
FilterEdgeThrows ==
    /\ pc = "edges"
    /\ rawEdges[idx].kind = "null"
    /\ Throws("TypeError")
    /\ UNCHANGED <<inputs, idx, sourceMap, chunkIndexToUriMap, cleanSupports,
                   cleanText, summary, uniqueNodes, cleanedEdges>>

\* lines 194-203
Return ==
    /\ pc = "return"
    /\ Returns([graphData |-> [nodes |-> cleanedNodes, edges |-> cleanedEdges],
                sources |-> sources,
                searchQueries |-> searchQueries,
                summary |-> summary,
                groundingSupports |-> cleanSupports])
    /\ UNCHANGED <<inputs, idx, sourceMap, chunkIndexToUriMap, cleanSupports,
                   cleanText, summary, uniqueNodes, cleanedEdges>>

\* part_004 lines 94-159: SourcePanel renders the summary of the result
Render ==
    /\ pc = "done"
    /\ outcome = "returned"
    /\ view' = RenderSummary(Chars(result.summary), result.groundingSupports).view
    /\ elements' =
           RenderSummary(Chars(result.summary), result.groundingSupports).elements
    /\ pc' = "rendered"
    /\ UNCHANGED <<inputs, idx, sourceMap, chunkIndexToUriMap, cleanSupports,
                   cleanText, summary, uniqueNodes, cleanedEdges, outcome,
                   error, result, clicked, scrolledTo, app>>

\* part_004 lines 82-91: a click on the citation marker of a chunk index
ScrollToSource ==
    /\ pc = "rendered"
    /\ \E chunkIndex \in Markers(elements) :
          /\ clicked' = chunkIndex
          /\ scrolledTo' = EntryById(result.sources, MarkerTarget(chunkIndex))
    /\ UNCHANGED <<inputs, pc, idx, sourceMap, chunkIndexToUriMap,
                   cleanSupports, cleanText, summary, uniqueNodes, cleanedEdges,
                   outcome, error, result, view, elements, app>>

Next ==
    \/ ExtractChunk
    \/ LinkSupport
    \/ LinkSupportThrows
    \/ Isolate
    \/ ParseGraph
    \/ ParseInvalidShape
    \/ ParseFailsWithSources
    \/ ParseFailsFatal
    \/ DedupNode
    \/ FilterEdge
    \/ FilterEdgeThrows
    \/ Return
    \/ Render
    \/ ScrollToSource

Spec == Init /\ [][Next]_vars

-----------------------------------------------------------------------------
(* 6. The App: the search form and what it displays.  handleSearch runs    *)
(* to its await in one step; its continuation (the rest of the try block,  *)
(* or the catch block, and the finally block) runs in one step when the    *)
(* promise of fetchKnowledgeGraph settles.                                 *)

\* what the user can type into the search input
Queries == {<<>>, <<" ">>, <<"q">>, <<"r">>}

\* fetchKnowledgeGraph(query): the promise is pending, then it resolves
\* with the result of processGeminiOutput or rejects with the error caught
Pending == [kind |-> "pending"]
Resolved(g, srcs) == [kind |-> "resolved", graphData |-> g, sources |-> srcs]
Rejected(msg) == [kind |-> "rejected", message |-> msg]

SourceOf(uri, title) == [title |-> title, uri |-> uri, citationCount |-> 0]

\* results processGeminiOutput returns: a graph with its sources, another
\* graph with other sources, the fallback with sources, the empty result
FetchResults ==
    {Resolved([nodes |-> <<Node(Str("1"), "A")>>, edges |-> <<>>],
              <<SourceOf(UriA, "T1")>>),
     Resolved([nodes |-> <<Node(Str("2"), "A")>>, edges |-> <<>>],
              <<SourceOf(UriB, "T2")>>),
     Resolved(EmptyGraph, <<SourceOf(UriA, "T1")>>),
     Resolved(EmptyGraph, <<>>)}

\* errors fetchKnowledgeGraph rethrows: the parse error of the pipeline,
\* and an error whose message is empty or missing
FetchErrors == {Rejected(ParseErrorMessage), Rejected("")}

\* App.tsx lines 9-21: graphData and sources start from what an earlier
\* session left in localStorage, or from their defaults
PersistedResults == FetchResults

SourcesFoundHint ==
    "Search sources were found (see sidebar), but the AI could not generate a valid knowledge graph structure for this query. Please try a different or more specific topic."
NoGraphHint == "No knowledge graph could be generated. Please try a different query."
UnexpectedError == "An unexpected error occurred."

Message(m) == [set |-> TRUE, message |-> m]

\* the pipeline is not part of the App's state: it stays as constructed
PipelineIdle ==
    /\ InitChunks /\ groundingChunks = <<>>
    /\ pc = AfterChunks(1)
    /\ idx = 1
    /\ sourceMap = <<>>
    /\ chunkIndexToUriMap = <<>>
    /\ cleanSupports = <<>>
    /\ cleanText = text
    /\ summary = <<>>
    /\ uniqueNodes = <<>>
    /\ cleanedEdges = <<>>
    /\ outcome = "pending"
    /\ error = ""
    /\ result = NoResult
    /\ view = "none"
    /\ elements = <<>>
    /\ clicked = -1
    /\ scrolledTo = 0

pipeline ==
    <<inputs, pc, idx, sourceMap, chunkIndexToUriMap, cleanSupports, cleanText,
      summary, uniqueNodes, cleanedEdges, outcome, error, result, panel>>

AppInit ==
    /\ PipelineIdle
    /\ query \in Queries
    /\ \E r \in PersistedResults :
          /\ graphData = r.graphData
          /\ displayedSources = r.sources
    /\ loading = FALSE
    /\ appError = NoError
    /\ selectedNode = NoNode
    /\ calls = 0
    /\ requests = <<>>

\* line 219: disabled={loading}; the form has no other control, so a
\* search is submitted by Enter in this input only
\* an input that stays enabled while a search runs
InputAlwaysEnabled == TRUE

InputEnabled == ~loading

\* line 115: !query.trim()
\* a test of the query without trim()
IsEmpty(q) == q = <<>>

IsBlank(q) == Trim(q) = <<>>

\* line 123: setSources([])
\* a start of search that leaves the sources on display
KeepSources(previous) == previous

CleanSources(previous) == <<>>

\* the searches whose promise has not settled
InFlight == {id \in 1..Len(requests) : requests[id].outcome = Pending}

\* line 218: onChange={(e) => setQuery(e.target.value)}
SetQuery ==
    /\ InputEnabled
    /\ \E q \in Queries \ {query} : query' = q
    /\ UNCHANGED <<graphData, displayedSources, loading, appError,
                   selectedNode, calls, requests, pipeline>>

\* lines 113-115: handleSearch on a blank query returns at once
HandleSearchBlank ==
    /\ InputEnabled
    /\ calls < MaxSearches
    /\ IsBlank(query)
    /\ calls' = calls + 1
    /\ UNCHANGED <<query, graphData, displayedSources, loading, appError,
                   selectedNode, requests, pipeline>>

\* lines 113-125: handleSearch up to the await
HandleSearch ==
    /\ InputEnabled
    /\ calls < MaxSearches
    /\ ~IsBlank(query)
    /\ calls' = calls + 1
    /\ loading' = TRUE
    /\ appError' = NoError
    /\ selectedNode' = NoNode
    /\ graphData' = EmptyGraph
    /\ displayedSources' = CleanSources(displayedSources)
    /\ requests' = Append(requests, [query |-> query, outcome |-> Pending])
    /\ UNCHANGED <<query, pipeline>>

\* lines 125-135 and 138-140: the promise resolves
FetchResolves ==
    \E id \in InFlight, r \in FetchResults :
        /\ graphData' = r.graphData
        /\ displayedSources' = r.sources
        /\ appError' =
               IF Len(r.graphData.nodes) = 0 /\ Len(r.sources) > 0
               THEN Message(SourcesFoundHint)
               ELSE IF Len(r.graphData.nodes) = 0 THEN Message(NoGraphHint)
               ELSE appError
        /\ loading' = FALSE
        /\ requests' = [requests EXCEPT ![id].outcome = r]
        /\ UNCHANGED <<query, selectedNode, calls, pipeline>>

\* lines 136-140: the promise rejects
FetchRejects ==
    \E id \in InFlight, e \in FetchErrors :
        /\ appError' = Message(IF e.message # "" THEN e.message
                               ELSE UnexpectedError)
        /\ loading' = FALSE
        /\ requests' = [requests EXCEPT ![id].outcome = e]
        /\ UNCHANGED <<query, graphData, displayedSources, selectedNode, calls,
                       pipeline>>

\* line 234: onNodeClick={setSelectedNode}
SelectNode ==
    /\ \E j \in 1..Len(graphData.nodes) :
          /\ selectedNode # graphData.nodes[j]
          /\ selectedNode' = graphData.nodes[j]
    /\ UNCHANGED <<query, graphData, displayedSources, loading, appError,
                   calls, requests, pipeline>>

AppNext ==
    \/ SetQuery
    \/ HandleSearchBlank
    \/ HandleSearch
    \/ FetchResolves
    \/ FetchRejects
    \/ SelectNode

AppSpec == AppInit /\ [][AppNext]_vars

\* the promise of a search that was started settles
AppFairSpec == AppSpec /\ WF_vars(FetchResolves \/ FetchRejects)

-----------------------------------------------------------------------------
(* Vocabulary of the properties, stated on the inputs and the result       *)
(* without the operators of the pipeline.                                  *)

Returned == outcome = "returned"

\* the run went through the node and edge loops and returned
ReturnedGraph == Returned /\ JsonParse(cleanText) = "graph"

outNodes == result.graphData.nodes
outEdges == result.graphData.edges

\* the position of the first input node whose id reads s once coerced
FirstNodeWithId(s) ==
    CHOOSE j \in 1..Len(rawNodes) :
        /\ rawNodes[j].kind = "object"
        /\ rawNodes[j].id.ty # "undefined"
        /\ rawNodes[j].id.s = s
        /\ \A k \in 1..(j - 1) :
              ~(rawNodes[k].kind = "object" /\ rawNodes[k].id.ty # "undefined"
                /\ rawNodes[k].id.s = s)

\* the string-coerced ids of the surviving nodes
SurvivingIds == {outNodes[k].id.s : k \in 1..Len(outNodes)}

\* the input edges whose coerced endpoints are both surviving ids
EdgeResolves(e) == e.source.s \in SurvivingIds /\ e.target.s \in SurvivingIds
ResolvingEdges == SelectSeq(rawEdges, EdgeResolves)

\* a URI with one trailing '/' stripped
StripSlash(u) ==
    IF u # <<>> /\ u[Len(u)] = "/" THEN SubSeq(u, 1, Len(u) - 1) ELSE u

\* a chunk that is null/undefined, has no web object, or has a missing or
\* empty web.uri
Malformed(c) ==
    c.kind # "object" \/ c.web # "object" \/ ~c.hasUri \/ c.uri = <<>>

HasTitle(c) == c.hasTitle /\ c.title # ""

\* the positions of the well-formed chunks whose normalized URI is key
ChunksOf(key) ==
    {j \in 1..Len(groundingChunks) :
        ~Malformed(groundingChunks[j]) /\ StripSlash(groundingChunks[j].uri) = key}

InputKeys ==
    {StripSlash(groundingChunks[j].uri) :
        j \in {k \in 1..Len(groundingChunks) : ~Malformed(groundingChunks[k])}}

Min(S) == CHOOSE a \in S : \A b \in S : a <= b

\* the sources of the result whose normalized URI is key
SourcesOf(key) ==
    {j \in 1..Len(result.sources) : StripSlash(result.sources[j].uri) = key}

-----------------------------------------------------------------------------
(* C1.  Every edge of a returned graph has a source and a target that are  *)
(* each the id of a node of that graph; this holds of the normal path and  *)
(* of both fallback paths.                                                 *)
C1_NoDanglingEdge ==
    Returned =>
        \A k \in 1..Len(outEdges) :
            /\ \E j \in 1..Len(outNodes) : outNodes[j].id = outEdges[k].source
            /\ \E j \in 1..Len(outNodes) : outNodes[j].id = outEdges[k].target

\* a run that kept an edge and dropped a dangling one
C1_Witness ==
    /\ ReturnedGraph
    /\ Len(outEdges) > 0
    /\ Len(outEdges) < Len(rawEdges)

(* C2.  When several input nodes share an id, the node kept is the first   *)
(* of them in input order, with the content of that first occurrence.      *)
C2_FirstOccurrenceWins ==
    ReturnedGraph =>
        \A k \in 1..Len(outNodes) :
            outNodes[k] = rawNodes[FirstNodeWithId(outNodes[k].id.s)]

(* C3.  No two nodes of the returned graph have ids that are equal after   *)
(* coercion to string.                                                     *)
C3_UniqueNodeIds ==
    Returned =>
        \A j, k \in 1..Len(outNodes) :
            j # k => outNodes[j].id.s # outNodes[k].id.s

\* a run whose input had two nodes with the same coerced id
C3_Witness ==
    /\ ReturnedGraph
    /\ Len(outNodes) > 0
    /\ \E j, k \in 1..Len(rawNodes) :
          /\ j < k
          /\ rawNodes[j].kind = "object" /\ rawNodes[k].kind = "object"
          /\ rawNodes[j].id.ty = "string" /\ rawNodes[k].id.ty = "number"
          /\ rawNodes[j].id.s = rawNodes[k].id.s
          /\ rawNodes[j].id.s \in SurvivingIds

(* C4.  The edges of the returned graph are exactly the input edges whose  *)
(* string-coerced source and target are both string-coerced ids of         *)
(* surviving nodes, in input order, with their endpoints coerced.          *)
C4_ResolvingEdgesKept ==
    ReturnedGraph =>
        outEdges = [k \in 1..Len(ResolvingEdges) |->
                       [ResolvingEdges[k] EXCEPT
                           !.source = [ty |-> "string", s |-> @.s],
                           !.target = [ty |-> "string", s |-> @.s]]]

(* C5.  No two entries of the source list have the same normalized URI     *)
(* (the URI with one trailing '/' stripped), at any point of the run and   *)
(* in the result.                                                          *)
C5_UniqueSourceUris ==
    /\ \A j, k \in 1..Len(sources) :
          j # k => StripSlash(sources[j].uri) # StripSlash(sources[k].uri)
    /\ Returned =>
          \A j, k \in 1..Len(result.sources) :
              j # k => StripSlash(result.sources[j].uri)
                           # StripSlash(result.sources[k].uri)

\* a run whose chunks gave one URI with and without its trailing slash
C5_Witness ==
    /\ Returned
    /\ Len(result.sources) > 0
    /\ \E j, k \in 1..Len(groundingChunks) :
          /\ j # k
          /\ ~Malformed(groundingChunks[j]) /\ ~Malformed(groundingChunks[k])
          /\ groundingChunks[j].uri # groundingChunks[k].uri
          /\ StripSlash(groundingChunks[j].uri) = StripSlash(groundingChunks[k].uri)

(* C6.  Once the Source stored for a normalized URI has a title other than *)
(* the placeholder, no step changes that title.                            *)
C6_TitleNeverOverwritten ==
    [][\A j \in 1..Len(sourceMap) :
          sourceMap[j].val.title # UnknownSource =>
              /\ Len(sourceMap') >= j
              /\ sourceMap'[j].key = sourceMap[j].key
              /\ sourceMap'[j].val.title = sourceMap[j].val.title]_vars

\* a run in which a titled chunk was followed by a chunk of the same
\* normalized URI with another title
C6_Witness ==
    /\ Returned
    /\ \E j, k \in 1..Len(groundingChunks) :
          /\ j < k
          /\ ~Malformed(groundingChunks[j]) /\ ~Malformed(groundingChunks[k])
          /\ StripSlash(groundingChunks[j].uri) = StripSlash(groundingChunks[k].uri)
          /\ HasTitle(groundingChunks[j]) /\ HasTitle(groundingChunks[k])
          /\ groundingChunks[j].title # UnknownSource
          /\ groundingChunks[k].title # groundingChunks[j].title

\* the title a source of key ends with when its first chunk has none: the
\* first later non-empty title (a later title that is itself the text
\* "Unknown Source" leaves the placeholder in place, to be upgraded again)
LaterTitled(key) ==
    {j \in ChunksOf(key) : j > Min(ChunksOf(key)) /\ HasTitle(groundingChunks[j])}

UpgradedTitle(key) ==
    LET real == {j \in LaterTitled(key) : groundingChunks[j].title # UnknownSource}
    IN IF real = {} THEN UnknownSource ELSE groundingChunks[Min(real)].title

(* C7.  If the first chunk of a normalized URI has no title and a later    *)
(* chunk of that URI supplies a non-empty title, the one Source of that    *)
(* URI carries the later title; a chunk without a title that is alone for  *)
(* its URI yields the placeholder title.                                   *)
C7_TitleUpgrade ==
    Returned =>
        \A key \in InputKeys :
            LET first == groundingChunks[Min(ChunksOf(key))] IN
            /\ (~HasTitle(first) /\ LaterTitled(key) # {}) =>
                  /\ Cardinality(SourcesOf(key)) = 1
                  /\ \A j \in SourcesOf(key) :
                        result.sources[j].title = UpgradedTitle(key)
            /\ (~HasTitle(first) /\ Cardinality(ChunksOf(key)) = 1) =>
                  \A j \in SourcesOf(key) :
                      result.sources[j].title = UnknownSource

\* a run in which an untitled first chunk was upgraded by a later one
C7_Witness ==
    /\ Returned
    /\ \E key \in InputKeys :
          /\ ~HasTitle(groundingChunks[Min(ChunksOf(key))])
          /\ LaterTitled(key) # {}
          /\ \E j \in SourcesOf(key) :
                /\ result.sources[j].title # UnknownSource
                /\ result.sources[j].title = groundingChunks[Min(LaterTitled(key))].title

\* the chunk list without its malformed entries
WellFormedChunks == SelectSeq(groundingChunks, LAMBDA c : ~Malformed(c))

\* the sources the extractor gives for a chunk list
RECURSIVE SourcesFrom(_, _)
SourcesFrom(sm, chunks) ==
    IF chunks = <<>> THEN sm
    ELSE SourcesFrom(StoreSource(sm, Head(chunks)), Tail(chunks))

TitleAndUri(sm) ==
    [j \in 1..Len(sm) |-> [title |-> sm[j].val.title, uri |-> sm[j].val.uri]]

(* C8.  A malformed chunk (null/undefined, no web object, missing or empty *)
(* web.uri) produces no Source and no failure: after the chunk loop the    *)
(* sources are those of the chunk list without its malformed entries, each *)
(* source has the uri of a well-formed chunk, and an error is thrown only  *)
(* for a null support, a null edge, or a parse failure without sources.    *)
C8_MalformedChunksSkipped ==
    /\ pc # "chunks" =>
          /\ TitleAndUri(sourceMap) = TitleAndUri(SourcesFrom(<<>>, WellFormedChunks))
          /\ \A j \in 1..Len(sources) :
                \E k \in 1..Len(groundingChunks) :
                    /\ ~Malformed(groundingChunks[k])
                    /\ groundingChunks[k].uri = sources[j].uri
    /\ outcome = "threw" =>
          \/ /\ error = "TypeError"
             /\ \/ \E j \in 1..Len(groundingSupports) :
                      groundingSupports[j].kind = "null"
                \/ \E j \in 1..Len(rawEdges) : rawEdges[j].kind = "null"
          \/ /\ error = ParseErrorMessage
             /\ WellFormedChunks = <<>>

\* a run that returned sources from a chunk list holding a web chunk
\* without a usable uri before a well-formed chunk
C8_Witness ==
    /\ Returned
    /\ Len(result.sources) > 0
    /\ \E j, k \in 1..Len(groundingChunks) :
          /\ j < k
          /\ Malformed(groundingChunks[j])
          /\ groundingChunks[j].web = "object"
          /\ ~Malformed(groundingChunks[k])

ParseFails == pc = "parse" /\ JsonParse(Retrim(cleanText)) = "SyntaxError"

(* C9.  When the payload candidate cannot be parsed and no Source was      *)
(* extracted, the function returns no result and throws "Failed to parse   *)
(* knowledge graph data from AI response.".                                *)
C9_ParseFailureFatal ==
    [][(ParseFails /\ Len(sourceMap) = 0) =>
          /\ outcome' = "threw"
          /\ error' = "Failed to parse knowledge graph data from AI response."
          /\ result' = NoResult]_vars

\* a run that ended with the parse error
C9_Witness ==
    /\ pc = "done"
    /\ outcome = "threw"
    /\ error = "Failed to parse knowledge graph data from AI response."
    /\ JsonParse(cleanText) = "SyntaxError"

(* C10.  When the payload candidate cannot be parsed and at least one      *)
(* Source was extracted, nothing is thrown and the record returned has an  *)
(* empty graph and the sources (with their citation counts), summary,      *)
(* search queries and supports extracted before the parse.                 *)
C10_ParseFailureFallback ==
    [][(ParseFails /\ Len(sourceMap) > 0) =>
          /\ outcome' = "returned"
          /\ error' = ""
          /\ result'.graphData = [nodes |-> <<>>, edges |-> <<>>]
          /\ result'.sources = [j \in 1..Len(sourceMap) |-> sourceMap[j].val]
          /\ result'.summary = summary
          /\ result'.searchQueries = searchQueries
          /\ result'.groundingSupports = cleanSupports
          /\ result'.groundingSupports = groundingSupports]_vars

\* a run that fell back with a cited source and a summary
C10_Witness ==
    /\ Returned
    /\ JsonParse(cleanText) = "SyntaxError"
    /\ result.graphData = [nodes |-> <<>>, edges |-> <<>>]
    /\ result.summary # <<>>
    /\ \E j \in 1..Len(result.sources) : result.sources[j].citationCount > 0

\* the parse step finds a value that parsed but lacks the nodes or the edges
\* array
InvalidShape == pc = "parse" /\ JsonParse(Retrim(cleanText)) = "object"

\* the messages of the program that contain "Invalid graph data structure"
InvalidStructureMessages ==
    {"Invalid graph data structure",
     "Invalid graph data structure, returning sources only."}

(* C11.  When the payload parses but lacks a nodes or an edges array and   *)
(* no grounding chunk is given, the function throws an error whose message *)
(* contains "Invalid graph data structure".                                *)
C11_InvalidShapeThrows ==
    [][(InvalidShape /\ groundingChunks = <<>>) =>
          /\ outcome' = "threw"
          /\ error' \in InvalidStructureMessages]_vars

WrappedGraph == <<" ", "F3", "J", " ", "{", "G", "}", " ", "F3", " ">>

\* the text reads preamble, newline, fence, newline, postamble with the
\* first newline at position k
FencedAt(k) ==
    /\ k + Len(WrappedGraph) - 1 <= Len(text)
    /\ SubSeq(text, k, k + Len(WrappedGraph) - 1) = WrappedGraph

Preamble(k) == SubSeq(text, 1, k - 1)
Postamble(k) == SubSeq(text, k + Len(WrappedGraph), Len(text))

Contains(s, t) == \E j \in 1..Len(s) : s[j] = t

HasJsonFenceMarker(s) ==
    \E j \in 1..(Len(s) - 1) : s[j] = "F3" /\ s[j + 1] = "J"

\* the graph the arrays written in the payload give when the text is the
\* bare object
UnwrappedGraph ==
    [nodes |-> SanitizeGraph(rawNodes, rawEdges).nodes,
     edges |-> SanitizeGraph(rawNodes, rawEdges).edges]

Max(S) == CHOOSE a \in S : \A b \in S : a >= b

\* a text without the whitespace before its first and after its last
\* non-blank character
Strip(s) ==
    LET ink == {j \in 1..Len(s) : s[j] # " "}
    IN IF ink = {} THEN <<>> ELSE SubSeq(s, Min(ink), Max(ink))

\* the positions (1-based) at which a fenced block opens: a fence marker,
\* tagged json or not, that has a closing fence after it
JsonFences ==
    {p \in 1..(Len(text) - 1) :
        /\ text[p] = "F3" /\ text[p + 1] = "J"
        /\ \E q \in (p + 2)..Len(text) : text[q] = "F3"}

GenericFences ==
    {p \in 1..Len(text) :
        text[p] = "F3" /\ \E q \in (p + 1)..Len(text) : text[q] = "F3"}

\* the text between an opening marker of n tokens at p and the next fence
Interior(p, n) ==
    SubSeq(text, p + n, Min({q \in (p + n)..Len(text) : text[q] = "F3"}) - 1)

Before(p) == SubSeq(text, 1, p - 1)

(* C14.  When the text holds a fenced block tagged json, the payload       *)
(* candidate is the interior of the earliest such block (the content       *)
(* between the fences, without the whitespace that separates it from       *)
(* them), even if an untagged fenced block opens earlier; when it holds no *)
(* json-tagged block, the first untagged fenced block is used.  In both    *)
(* cases the summary is the trimmed text before the chosen fence.          *)
C14_JsonFencePrecedence ==
    pc = "parse" =>
        /\ JsonFences # {} =>
              /\ cleanText = Strip(Interior(Min(JsonFences), 2))
              /\ summary = Strip(Before(Min(JsonFences)))
        /\ (JsonFences = {} /\ GenericFences # {}) =>
              /\ cleanText = Strip(Interior(Min(GenericFences), 1))
              /\ summary = Strip(Before(Min(GenericFences)))

\* the isolator chose a json-tagged block that opens after an untagged
\* block has closed
C14_Witness ==
    /\ pc = "parse"
    /\ JsonFences # {}
    /\ \E p, q \in 1..(Min(JsonFences) - 1) :
          p < q /\ text[p] = "F3" /\ text[q] = "F3"
    /\ cleanText = <<"{", "G", "}">>
    /\ summary # <<>>

\* the position (1-based) of the first '{' of the text
FirstBrace == Min({j \in 1..Len(text) : text[j] = "{"})

FromFirstBrace == SubSeq(text, FirstBrace, Len(text))

Trimmed(s) == s = <<>> \/ (s[1] # " " /\ s[Len(s)] # " ")

(* C15.  When the text has no fenced block: if it contains '{', the        *)
(* summary is the trimmed text before the first '{' and the payload        *)
(* candidate is the text from the first '{' onward; otherwise the summary  *)
(* is empty and the payload candidate is the entire text.  The summary,    *)
(* and the summary returned, never starts or ends with whitespace.         *)
C15_BraceSplit ==
    /\ (pc = "parse" /\ GenericFences = {}) =>
          IF Contains(text, "{")
          THEN /\ summary = Strip(Before(FirstBrace))
               /\ cleanText = FromFirstBrace
          ELSE /\ summary = <<>>
               /\ cleanText = text
    /\ Trimmed(summary)
    /\ Returned => Trimmed(result.summary)

(* C15, amended.  The same, except that the payload candidate is trimmed   *)
(* when it is the whole text: when '{' is the first character it is the    *)
(* text without its trailing whitespace, and when there is no '{' it is    *)
(* the text without its leading and trailing whitespace.                   *)
C15_BraceSplitTrimmedWhole ==
    /\ (pc = "parse" /\ GenericFences = {}) =>
          IF Contains(text, "{")
          THEN /\ summary = Strip(Before(FirstBrace))
               /\ cleanText = IF FirstBrace > 1 THEN FromFirstBrace
                                                ELSE Strip(text)
          ELSE /\ summary = <<>>
               /\ cleanText = Strip(text)
    /\ Trimmed(summary)
    /\ Returned => Trimmed(result.summary)

\* the isolator took a text that opens with '{' and ends with whitespace
C15_Witness ==
    /\ pc = "parse"
    /\ GenericFences = {}
    /\ Contains(text, "{") /\ FirstBrace = 1
    /\ text[Len(text)] = " "
    /\ cleanText = Strip(text)
    /\ cleanText # text

\* the occurrences <<support, position>> of a chunk index whose chunk is
\* well formed and has the normalized URI key
Occurrences(key) ==
    UNION {{<<s, p>> : p \in {q \in 1..Len(groundingSupports[s].groundingChunkIndices) :
                            groundingSupports[s].groundingChunkIndices[q] + 1
                                \in ChunksOf(key)}} :
           s \in {t \in 1..Len(groundingSupports) :
                    /\ groundingSupports[t].kind = "object"
                    /\ groundingSupports[t].hasIndices}}

\* the run stopped on an error raised while the supports were linked
ThrewInSupportLoop ==
    /\ outcome = "threw"
    /\ error = "TypeError"
    /\ cleanSupports # <<>>
    /\ cleanSupports[Len(cleanSupports)].kind = "null"

(* C16.  In the result, the citationCount of each Source is the number of  *)
(* occurrences, over all supports and all positions of their index lists,  *)
(* of an index whose chunk has that Source's normalized URI; an index that *)
(* maps to no source changes no count, and a list of well-formed supports  *)
(* raises no error.                                                        *)
C16_CitationCounts ==
    /\ Returned =>
          \A j \in 1..Len(result.sources) :
              result.sources[j].citationCount =
                  Cardinality(Occurrences(StripSlash(result.sources[j].uri)))
    /\ ThrewInSupportLoop =>
          \E j \in 1..Len(groundingSupports) : groundingSupports[j].kind # "object"

\* an index of the support s resolves to a well-formed chunk
Resolves(s) ==
    \E q \in 1..Len(s.groundingChunkIndices) :
        /\ s.groundingChunkIndices[q] + 1 \in 1..Len(groundingChunks)
        /\ ~Malformed(groundingChunks[s.groundingChunkIndices[q] + 1])

(* C17.  The groundingSupports of the result is the input support          *)
(* sequence: same length, same order, each element unchanged, whether or   *)
(* not its chunk indices resolve or its text range fits the summary.       *)
C17_SupportsPassThrough ==
    Returned => result.groundingSupports = groundingSupports

\* a result that carries a support without indices and a support whose
\* index resolves to nothing and whose range lies outside the summary
C17_Witness ==
    /\ Returned
    /\ Len(groundingSupports) = 2
    /\ Len(groundingChunks) > 0
    /\ ~groundingSupports[1].hasIndices
    /\ groundingSupports[2].hasIndices
    /\ groundingSupports[2].groundingChunkIndices # <<>>
    /\ ~Resolves(groundingSupports[2])
    /\ groundingSupports[2].segment.endIndex > Len(result.summary)
    /\ result.groundingSupports = groundingSupports

\* a support that is null/undefined or has no groundingChunkIndices
MalformedSupport(s) == s.kind # "object" \/ ~s.hasIndices

WellFormedSupports == SelectSeq(groundingSupports, LAMBDA s : ~MalformedSupport(s))

\* the counts the linker gives for a support list
RECURSIVE CountSupports(_, _, _)
CountSupports(sm, im, supports) ==
    IF supports = <<>> THEN sm
    ELSE CountSupports(CountIndices(sm, im, Head(supports).groundingChunkIndices),
                       im, Tail(supports))

(* C18.  A malformed support (null/undefined, or an object without         *)
(* groundingChunkIndices) is handled silently: no error is raised while    *)
(* the supports are linked, and the sources returned have the citation     *)
(* counts that the support list without its malformed entries gives.       *)
C18_MalformedSupportsSilent ==
    /\ ~ThrewInSupportLoop
    /\ Returned =>
          sourceMap = CountSupports(SourcesFrom(<<>>, groundingChunks),
                                    chunkIndexToUriMap, WellFormedSupports)

(* C19.  Sanitizing is idempotent: the nodes and edges of a returned graph, *)
(* fed back as the arrays of a payload, give the same node list (same ids, *)
(* content and order) and the same edge list.                              *)
C19_SanitizeIdempotent ==
    Returned =>
        /\ ~SanitizeGraph(outNodes, outEdges).threw
        /\ SanitizeGraph(outNodes, outEdges).nodes = outNodes
        /\ SanitizeGraph(outNodes, outEdges).edges = outEdges

\* a returned graph whose first pass merged two nodes, kept an edge and
\* dropped another
C19_Witness ==
    /\ ReturnedGraph
    /\ Len(outNodes) > 0 /\ Len(outEdges) > 0 /\ Len(outEdges) < Len(rawEdges)
    /\ \E j, k \in 1..Len(rawNodes) :
          /\ j < k
          /\ rawNodes[j].kind = "object" /\ rawNodes[k].kind = "object"
          /\ rawNodes[j].id.s = rawNodes[k].id.s
          /\ rawNodes[j].id.s \in SurvivingIds
    /\ SanitizeGraph(outNodes, outEdges).nodes = outNodes
    /\ SanitizeGraph(outNodes, outEdges).edges = outEdges

(* C20.  In the annotated summary, the citation marker of chunk index i    *)
(* links and scrolls to the entry of the source list that represents chunk *)
(* i: the Source whose normalized URI is that of chunk i.                  *)
C20_MarkerReachesItsSource ==
    (/\ clicked \in 0..(Len(groundingChunks) - 1)
     /\ ~Malformed(groundingChunks[clicked + 1])) =>
        /\ scrolledTo \in 1..Len(result.sources)
        /\ StripSlash(result.sources[scrolledTo].uri)
               = StripSlash(groundingChunks[clicked + 1].uri)

\* the summary and the supports the panel was given
shownSummary == Chars(result.summary)
shownSupports == result.groundingSupports

\* the highlighted segments of the rendered summary, in order
SegmentPieces == SelectSeq(elements, LAMBDA el : el.kind = "seg")

\* the supports whose text range fits the summary
Fits(s) == s.segment.endIndex <= Len(shownSummary)
FittingSupports == SelectSeq(shownSupports, Fits)

\* the highlighted segment a support stands for: its range of the summary
\* and one marker per chunk index
PieceOf(s) ==
    [kind |-> "seg",
     text |-> SubSeq(shownSummary, s.segment.startIndex + 1, s.segment.endIndex),
     citations |-> s.groundingChunkIndices]

Occurs(piece, seq) == Cardinality({j \in 1..Len(seq) : seq[j] = piece})

(* C21.  When the summary is rendered, the highlighted segments (each with *)
(* its citation markers) are those of the supports whose endIndex is at    *)
(* most the length of the summary: a support that runs past the end gives  *)
(* no segment and no marker, and every support that fits gives one.        *)
C21_FittingSupportsRendered ==
    (pc = "rendered" /\ shownSummary # <<>>) =>
        /\ Len(SegmentPieces) = Len(FittingSupports)
        /\ \A j \in 1..Len(FittingSupports) :
              Occurs(PieceOf(FittingSupports[j]), SegmentPieces)
                  = Cardinality({k \in 1..Len(FittingSupports) :
                        PieceOf(FittingSupports[k]) = PieceOf(FittingSupports[j])})

\* ---------------------------------------------------------------------
\* C24: the returned sources are ordered by the first occurrence of their
\* normalized URI in the chunk list; a later chunk of an already stored URI
\* (a title upgrade included) never moves its source.
FirstChunkOf(source) == Min(ChunksOf(StripSlash(source.uri)))

C24_FirstOccurrenceOrder ==
    Returned =>
        \A j, k \in 1..Len(result.sources) :
            j < k => FirstChunkOf(result.sources[j]) < FirstChunkOf(result.sources[k])

\* A source whose title was upgraded by a chunk that comes after the first
\* chunk of the source listed behind it.
C24_Witness ==
    /\ Returned
    /\ \E j, k \in 1..Len(result.sources) :
          /\ j < k
          /\ ~HasTitle(groundingChunks[FirstChunkOf(result.sources[j])])
          /\ result.sources[j].title # UnknownSource
          /\ \E c \in ChunksOf(StripSlash(result.sources[j].uri)) :
                /\ c > FirstChunkOf(result.sources[k])
                /\ HasTitle(groundingChunks[c])

\* ---------------------------------------------------------------------
\* C25: an input node is represented in the output exactly when its id is
\* present and non-empty after coercion to a string; in particular the
\* numeric id 0 does not disappear.
IdPresent(node) ==
    /\ node.kind = "object"
    /\ node.id.ty # "undefined"
    /\ String(node.id).s # ""

C25_NodeKeptIffIdPresent ==
    ReturnedGraph =>
        \A j \in 1..Len(rawNodes) :
            rawNodes[j].kind = "object" =>
                (IdPresent(rawNodes[j]) <=> String(rawNodes[j].id).s \in SurvivingIds)

\* ---------------------------------------------------------------------
\* C26: a title upgrade changes only the title: every returned source still
\* carries the uri of the first chunk that introduced its normalized URI.
C26_UpgradeKeepsFirstUri ==
    Returned =>
        \A j \in 1..Len(result.sources) :
            result.sources[j].uri
                = groundingChunks[FirstChunkOf(result.sources[j])].uri

\* ---------------------------------------------------------------------
\* C29: processGeminiOutput either returns a result or throws the parse
\* error; no input, null entries included, makes it raise any other error.
C29_OnlyParseErrorThrown ==
    outcome = "threw" => error = ParseErrorMessage

\* ---------------------------------------------------------------------
\* C30: whenever renderSummary renders a non-empty summary, the texts of
\* the pieces it emits (plain spans and highlighted segments, markers left
\* out), concatenated in order, are exactly the summary: no character is
\* dropped or repeated, also when spans overlap or start at the same index.
RECURSIVE PieceTexts(_)
PieceTexts(els) ==
    IF els = <<>> THEN <<>> ELSE Head(els).text \o PieceTexts(Tail(els))

C30_PiecesSpellSummary ==
    (pc = "rendered" /\ view \in {"plain", "annotated"}) =>
        PieceTexts(elements) = shownSummary

\* ---------------------------------------------------------------------
\* Vocabulary of the claims about the App.

\* the resolved outcomes of the searches of this session
ResolvedSoFar ==
    {requests[id].outcome : id \in {k \in 1..Len(requests) :
                                       requests[k].outcome.kind = "resolved"}}

\* what a search with outcome o leaves on display
GraphOf(o) == IF o.kind = "resolved" THEN o.graphData ELSE EmptyGraph
SourcesShownOf(o) == IF o.kind = "resolved" THEN o.sources ELSE <<>>
ErrorOf(o) ==
    IF o.kind = "rejected"
    THEN Message(IF o.message = "" THEN UnexpectedError ELSE o.message)
    ELSE IF o.graphData.nodes # <<>> THEN NoError
    ELSE IF o.sources # <<>> THEN Message(SourcesFoundHint)
    ELSE Message(NoGraphHint)

Blank(q) == \A j \in 1..Len(q) : q[j] = " "

\* ---------------------------------------------------------------------
\* C22: after any sequence of searches the displayed graphData and sources
\* are both empty or both those of one single result (before the first
\* search: of the result an earlier session persisted); nothing of an
\* earlier result is merged into them.
C22_DisplayFromOneResult ==
    \/ graphData = EmptyGraph /\ displayedSources = <<>>
    \/ \E r \in (IF requests = <<>> THEN PersistedResults ELSE ResolvedSoFar) :
          graphData = r.graphData /\ displayedSources = r.sources

\* Two searches resolved with different graphs and sources, and the display
\* shows the second result alone.
C22_Witness ==
    /\ Len(requests) >= 2
    /\ InFlight = {}
    /\ requests[1].outcome.kind = "resolved"
    /\ requests[2].outcome.kind = "resolved"
    /\ requests[1].outcome.graphData.nodes # <<>>
    /\ requests[2].outcome.graphData.nodes # <<>>
    /\ requests[1].outcome.graphData # requests[2].outcome.graphData
    /\ requests[1].outcome.sources # requests[2].outcome.sources
    /\ Len(requests) = 2
    /\ graphData = requests[2].outcome.graphData
    /\ displayedSources = requests[2].outcome.sources

C28_Steps ==
    /\ (calls' = calls + 1 /\ ~Blank(query)) =>
           /\ loading'
           /\ Len(requests') = Len(requests) + 1
    /\ (calls' = calls + 1 /\ Blank(query)) =>
           UNCHANGED <<query, graphData, displayedSources, loading, appError,
                       selectedNode, requests>>
    /\ \A id \in 1..Len(requests) :
           (requests[id].outcome = Pending /\ requests'[id].outcome # Pending) =>
               /\ ~loading'
               /\ requests'[id].outcome.kind = "rejected" =>
                     /\ appError' = ErrorOf(requests'[id].outcome)
                     /\ appError'.set
                     /\ graphData' = EmptyGraph
                     /\ displayedSources' = <<>>

C28_LoadingEnds ==
    /\ [][C28_Steps]_vars
    /\ loading ~> ~loading

\* A blank submission was ignored, a search was rejected, and the App shows
\* the error over a cleared graph.
C28_Witness ==
    /\ calls > Len(requests)
    /\ \E id \in 1..Len(requests) : requests[id].outcome.kind = "rejected"
    /\ requests[Len(requests)].outcome.kind = "rejected"
    /\ ~loading
    /\ appError.set
    /\ graphData = EmptyGraph /\ displayedSources = <<>>

=============================================================================
